---- MODULE Spec2Model ----
(***************************************************************************)
(* A model of term1nal's session bridge (src/term1nal/handlers.py):        *)
(* the connect endpoint IndexHandler.post, the registry GRU, the           *)
(* reclamation timer, the WebSocket handler WSHandler (open, on_message,   *)
(* on_close), the download handler DownloadHandler.get, the upload pump    *)
(* StreamUploadMixin.data_received and the settings of conf.py.            *)
(*                                                                         *)
(* term1nal/minion.py (Minion, recycle_minion, GRU) is not among the       *)
(* source files; the definitions marked "spec-modelled" follow sections    *)
(* 3, 4.1, 4.2 and 4.3 of the specification instead.                       *)
(***************************************************************************)
EXTENDS Integers, Sequences, FiniteSets, TLC

\* ---------------------------------------------------------------- bounds
\* Number of connect requests (IndexHandler instances) in a behaviour.
MaxReqs == 3
\* Number of WebSocket connections (WSHandler instances) in a behaviour.
MaxWS == 2
\* conf.max_conn (conf.py:57, TERM_MAX_CONN, default 20), scaled down.
max_conn == 2
\* Longest outbound buffer (Minion.data_to_dst) the model follows.
MaxBuf == 2
\* Longest remote file, in bytes, a download is followed for.
MaxFile == 3
\* chunk_size of DownloadHandler.get (1 MiB in handlers.py:349), scaled down.
chunk_size == 2

\* ------------------------------------------------------------- universes
Reqs == 1..MaxReqs
WSs == 1..MaxWS
\* Minion.id: the session built for request r has id r (ids are unique).
Ids == Reqs
\* Python's None for object references (ids, handlers, dict references).
None == 0
\* Identities of the per-ip dict objects: the dict that the expression
\* GRU.get(ip, {}) creates in request r has identity r.
DictIds == Reqs
\* request.remote_ip / the port of get_client_endpoint().
IPs == {"ip1", "ip2"}
Ports == {4001, 4002}
\* The (hostname, port, username, password) tuple of get_args().
Args == {"argsA"}
\* The dict {} : no keys.
EmptyDict == [k \in {} |-> None]

\* Session lifecycle states (specification, section 3).
PENDING == "PENDING"
ATTACHED == "ATTACHED"
CLOSED == "CLOSED"
\* No Minion object has been built (yet) for this id.
NOMINION == "NOMINION"

NoStatus == "None"
NoReason == "None"
AuthFailedReason == "Websocket authentication failed."
MissingIdReason == "id is missing"
DisconnectedReason == "client disconnected"
RecycledReason == "minion recycled"
ClientReason == "bye"
ChanClosedReason == "chan closed"

\* ------------------------------------------------------ JSON frame values
\* The values of the "resize" member the model follows, written as JSON
\* ("absent": the object has no such member).
ResizeVals == {"absent", "null", "0", "5", "true", "[]", "[80]", "[80,24]",
               "[\"a\",\"b\"]", "[80,24,1]", "\"ab\""}
\* The values of the "data" member the model follows.
DataVals == {"absent", "\"\"", "\"ls\"", "7"}
\* The Python type of a decoded value.
PyType(v) ==
    CASE v \in {"absent", "null"} -> "NoneType"
      [] v \in {"0", "5", "7"} -> "int"
      [] v = "true" -> "bool"
      [] v \in {"\"\"", "\"ab\"", "\"ls\""} -> "str"
      [] OTHER -> "list"
\* len(v), for the types that have one.
PyLen(v) ==
    CASE v \in {"[]", "\"\""} -> 0
      [] v = "[80]" -> 1
      [] v \in {"[80,24]", "[\"a\",\"b\"]", "\"ab\"", "\"ls\""} -> 2
      [] v = "[80,24,1]" -> 3
      [] OTHER -> 0
\* bool(v): None, 0 and the empty string and list are false.
Truthy(v) ==
    CASE PyType(v) = "NoneType" -> FALSE
      [] PyType(v) \in {"int", "bool"} -> v # "0"
      [] OTHER -> PyLen(v) > 0
\* len(v) is defined for these types only; for the others it raises TypeError.
HasLen(v) == PyType(v) \in {"str", "list"}
\* The items of v are integers that resize_pty() can pack.
AllInts(v) == v \in {"[]", "[80]", "[80,24]", "[80,24,1]"}
\* The (width, height) that resize_pty(*v) is called with.
Dims(v) == IF v = "[80,24]" THEN <<80, 24>> ELSE <<0, 0>>
\* An inbound frame: text that is no JSON, a JSON value that is no object, or
\* an object with its "resize" and "data" members.
NoFrame == [json |-> "none", resize |-> "absent", data |-> "absent"]
Frames ==
    { [NoFrame EXCEPT !.json = j] : j \in {"malformed", "array", "number"} }
    \cup { [json |-> "object", resize |-> rv, data |-> dv] :
             rv \in ResizeVals, dv \in DataVals }

VARIABLES
    GRU,      \* GRU: ip -> reference to the ip's dict (None: no key)
    heap,     \* the dict objects: DictId -> (minion id -> entry)
    req,      \* the IndexHandler instances (the locals of post())
    minion,   \* the Minion objects
    timer,    \* loop.call_later(delay, recycle_minion, minion) per minion
    ws,       \* the WSHandler instances
    last,     \* what the handler that ran last was given and answered
    dl,       \* the DownloadHandler instance
    up,       \* the UploadHandler instance
    conf      \* term1nal.conf.conf, with the environment it was read from

vars == <<GRU, heap, req, minion, timer, ws, last, dl, up, conf>>

\* ------------------------------------------------------------------ conf
\* os.getenv(name) of a variable that is not set.
Unset == -1
\* DELAY of handlers.py and the default of conf.max_conn.
DELAY == 3
DefaultMaxConn == 20
\* Largest value an environment variable is given.
MaxEnv == 2
\* Longest file content, in bytes, of an upload.
MaxUpload == 4
\* Longest chunk given to the trailing-CRLF filter.
MaxChunk == 5
\* The values of an environment variable that holds a number.
EnvVals == {Unset} \cup 0..MaxEnv
\* int(os.getenv(name, default))
GetEnvInt(env, name, default) ==
    IF env[name] = Unset THEN default ELSE env[name]
\* conf.py:57-58: conf.max_conn and conf.delay are both read from
\* TERM_MAX_CONN; no variable of the environment is read for the delay alone
\* (the model calls that setting TERM_DELAY).
ConfOf(env) ==
    [env |-> env,
     max_conn |-> GetEnvInt(env, "TERM_MAX_CONN", DefaultMaxConn),
     delay |-> GetEnvInt(env, "TERM_MAX_CONN", 0)]
\* The environment of the scenarios that are not about the configuration:
\* TERM_MAX_CONN is max_conn and nothing else is set.
Env0 == [TERM_MAX_CONN |-> max_conn, TERM_DELAY |-> Unset]
\* conf.delay or DELAY: the delay given to loop.call_later.
TimerDelay == IF conf.delay # 0 THEN conf.delay ELSE DELAY

\* ------------------------------------------------------------ dict helpers
\* d[k] = e on a dict value.
DictPut(d, k, e) == [x \in (DOMAIN d) \cup {k} |-> IF x = k THEN e ELSE d[x]]
\* d.pop(k) on a dict value.
DictDel(d, k) == [x \in (DOMAIN d) \ {k} |-> d[x]]
\* `not d` on a dict value.
IsEmpty(d) == DOMAIN d = {}
\* GRU.get(ip): the dict's contents, EmptyDict when the key is missing.
Minions(ip) == IF GRU[ip] = None THEN EmptyDict ELSE heap[GRU[ip]]

\* ------------------------------------------------------------------ Init
\* An IndexHandler before post() runs; a finished one is "done".
NewReq == [pc |-> "idle", ip |-> "ip1", port |-> 4001, minions |-> None]

NewMinion == [state |-> NOMINION, handler |-> None, src_addr |-> <<"ip1", 4001>>,
              close_reason |-> NoReason, pty |-> <<0, 0>>, data_to_dst |-> <<>>]

NewWS == [pc |-> "new", minion_ref |-> None]

\* The request and the response of one handler run: op names the handler,
\* who the handler instance; ip, port, idarg are the request's endpoint and id
\* argument; http, status, id the connect response; net whether an SSH
\* connect was attempted; outcome and reason how a WebSocket handler ended;
\* frame the message given to on_message() and calls what it called on the
\* minion; input how the SSH side answered the handler; delay the delay
\* post() gave to loop.call_later; loop the blocking calls the handler made
\* on the event-loop thread and worker those made for it on a thread of the
\* executor.
NoEvent == [op |-> "none", who |-> None, ip |-> "ip1", port |-> 4001,
            idarg |-> None, http |-> 0, status |-> NoStatus, id |-> None,
            net |-> FALSE, outcome |-> "none", reason |-> NoReason,
            frame |-> NoFrame, calls |-> {}, input |-> "none", delay |-> 0,
            loop |-> {}, worker |-> {}]

\* A DownloadHandler before get() runs. file is what the remote `cat` has
\* still to deliver of its size bytes, body what was written and flushed to
\* the response, gone whether flush() met a closed stream, loop the
\* blocking calls get() made on the event-loop thread.
NewDownload == [pc |-> "idle", ssh |-> "none", fh |-> FALSE, probe |-> "none",
                file |-> <<>>, body |-> <<>>, notfound |-> FALSE,
                finished |-> FALSE, raised |-> FALSE, reads |-> 0,
                size |-> 0, gone |-> FALSE, minion_id |-> None,
                loop |-> {}]

\* An UploadHandler before its request body arrives: chunk is the argument
\* of the last _write_chunk(chunk), trimmed what it gave to sendall, sent
\* everything the remote write-channel self.fh was given.
\* rest is what of the request body has still to arrive, ssh the one-off
\* connection self.ssh_transport_client, fh whether the remote write-channel
\* self.fh is set, closedOn the chunks data_received() took for the end of
\* the form.
NewUpload == [pc |-> "idle", chunk |-> <<>>, trimmed |-> <<>>, sent |-> <<>>,
              ip |-> "ip1", rest |-> <<>>, minion_id |-> None,
              ssh |-> "none", fh |-> FALSE, closedOn |-> {}]

Init ==
    /\ GRU = [ip \in IPs |-> None]
    /\ heap = [d \in DictIds |-> EmptyDict]
    /\ req = [r \in Reqs |-> NewReq]
    /\ minion = [s \in Ids |-> NewMinion]
    /\ timer = [s \in Ids |-> "none"]
    /\ ws = [w \in WSs |-> NewWS]
    /\ last = NoEvent
    /\ dl = NewDownload
    /\ up = NewUpload
    /\ conf = ConfOf(Env0)

\* ---------------------------------------------------- spec-modelled Minion
\* Minion.set_handler(handler): the claim flips PENDING to ATTACHED.
SetHandler(m, w) ==
    IF m.state = PENDING THEN [m EXCEPT !.state = ATTACHED, !.handler = w]
    ELSE m

\* Minion.close(reason), the session's part: CLOSED is terminal, the handler
\* is detached; closing a CLOSED (or never built) session changes nothing.
MinionClosed(m, reason) ==
    IF m.state \in {PENDING, ATTACHED}
    THEN [m EXCEPT !.state = CLOSED, !.handler = None, !.close_reason = reason]
    ELSE m

\* Minion.close(reason), the registry's part: remove(endpoint, id) deletes the
\* entry found through GRU under the session's endpoint; idempotent.
HeapAfterClose(s) ==
    LET d == GRU[minion[s].src_addr[1]]
    IN IF /\ minion[s].state \in {PENDING, ATTACHED}
          /\ d # None
          /\ s \in DOMAIN heap[d]
       THEN [heap EXCEPT ![d] = DictDel(heap[d], s)]
       ELSE heap

\* Minion.close(reason), the web side: the attached handler is told to close
\* (handler.close(reason)).
WsAfterClose(wsf, s) ==
    LET w == minion[s].handler
    IN IF minion[s].state = ATTACHED /\ w # None /\ wsf[w].pc = "attached"
       THEN [wsf EXCEPT ![w].pc = "closing"]
       ELSE wsf

\* ------------------------------------------------------ IndexHandler.post
\* The admission check with > for >=.
CapReached_OffByOne(ip) ==
    /\ ~IsEmpty(Minions(ip))
    /\ Cardinality(DOMAIN Minions(ip)) > conf.max_conn

\* if minions and len(minions) >= conf.max_conn
CapReached(ip) ==
    /\ ~IsEmpty(Minions(ip))
    /\ Cardinality(DOMAIN Minions(ip)) >= conf.max_conn

\* What get_args() and create_ssh_client(args) can end in.
PostOutcomes == {"ok", "missing", "badport", "sockerr", "authfail", "sshexc"}

\* StatusOf with create_ssh_client's `except socket.error` left out: the
\* socket error is no ValueError and post() does not catch it.
StatusOf_NoSocketCatch(out) ==
    CASE out = "badport" -> "invalid literal for int()"
      [] out = "authfail" -> "Authentication failed."
      [] out = "sshexc" -> "SSH error"
      [] OTHER -> NoStatus

\* str(err) of the exception post() catches for an outcome.
StatusOf(out) ==
    CASE out = "badport" -> "invalid literal for int()"
      [] out = "sockerr" -> "Unable to connect to host:port"
      [] out = "authfail" -> "Authentication failed."
      [] out = "sshexc" -> "SSH error"
      [] OTHER -> NoStatus

\* The response of post() up to its suspension, for an outcome of get_args()
\* and create_ssh_client(): 406 at the cap, 400 for a missing field, 200 with
\* a status for a failed connect, and no response yet ("suspended") when the
\* SSH connection stands and create_minion was submitted.
PostAnswer(r, ip, port, out) ==
    LET ev == [NoEvent EXCEPT !.op = "post", !.who = r, !.ip = ip,
                              !.port = port, !.input = out]
    IN IF CapReached(ip)
       THEN [ev EXCEPT !.http = 406, !.outcome = "raised"]
       ELSE IF out = "missing"
       THEN [ev EXCEPT !.http = 400, !.outcome = "raised"]
       ELSE IF out = "badport"
       THEN [ev EXCEPT !.http = 200, !.status = StatusOf(out),
                       !.outcome = "written"]
       ELSE IF out \in {"sockerr", "authfail", "sshexc"}
       THEN \* create_ssh_client(args) is called in post() itself
            [ev EXCEPT !.http = 200, !.status = StatusOf(out), !.net = TRUE,
                       !.outcome = "written", !.loop = {"ssh.connect"}]
       ELSE [ev EXCEPT !.net = TRUE, !.outcome = "suspended",
                       !.loop = {"ssh.connect"}]

\* post() up to its suspension at `minion = yield future`: the endpoint, the
\* lookup of the ip's dict, the admission check, get_args(), the SSH connect
\* (create_ssh_client) and the submit of create_minion to the executor.
PostStart(r, ip, port, out) ==
    /\ req[r].pc = "idle"
    /\ \A q \in Reqs : q < r => req[q].pc # "idle"
    /\ last' = PostAnswer(r, ip, port, out)
    /\ req' = [req EXCEPT ![r] =
         IF last'.outcome = "suspended"
         THEN [pc |-> "suspended", ip |-> ip, port |-> port,
               minions |-> IF GRU[ip] = None THEN r ELSE GRU[ip]]
         ELSE [NewReq EXCEPT !.pc = "done"]]
    /\ UNCHANGED <<GRU, heap, minion, timer, ws, dl, up, conf>>

\* Register with the call loop.call_later(..., recycle_minion, minion) left
\* out.
Register_NoTimer(r, a) ==
    LET d == req[r].minions
        ip == req[r].ip
    IN /\ GRU' = IF IsEmpty(heap[d]) THEN [GRU EXCEPT ![ip] = d] ELSE GRU
       /\ minion' = [minion EXCEPT ![r].state = PENDING,
                                   ![r].src_addr = <<ip, req[r].port>>]
       /\ heap' = [heap EXCEPT ![d] =
              DictPut(heap[d], r, [minion |-> r, args |-> a])]
       /\ UNCHANGED timer

\* The registration of the minion built for request r, with connect args a
\* (the else branch of post's try).
Register(r, a) ==
    LET d == req[r].minions
        ip == req[r].ip
    IN /\ GRU' = IF IsEmpty(heap[d]) THEN [GRU EXCEPT ![ip] = d] ELSE GRU
       /\ minion' = [minion EXCEPT ![r].state = PENDING,
                                   ![r].src_addr = <<ip, req[r].port>>]
       /\ heap' = [heap EXCEPT ![d] =
              DictPut(heap[d], r, [minion |-> r, args |-> a])]
       /\ timer' = [timer EXCEPT ![r] = "armed"]

\* create_minion(args) has run on an executor thread (invoke_shell, then
\* Minion(...); ok = FALSE: invoke_shell raised paramiko.SSHException) and
\* post() is resumed on the event loop with the future's result.
PostResume(r, a, ok) ==
    /\ req[r].pc = "suspended"
    /\ LET ev == [NoEvent EXCEPT !.op = "post", !.who = r, !.ip = req[r].ip,
                                 !.port = req[r].port, !.net = TRUE,
                                 !.http = 200, !.outcome = "written",
                                 !.input = IF ok THEN "ok" ELSE "shellexc",
                                 !.worker = {"invoke_shell"}]
       IN IF ok
          THEN /\ Register(r, a)
               /\ last' = [ev EXCEPT !.id = r, !.delay = TimerDelay]
          ELSE /\ last' = [ev EXCEPT !.status = StatusOf("sshexc")]
               /\ UNCHANGED <<GRU, heap, minion, timer>>
    /\ req' = [req EXCEPT ![r] = [NewReq EXCEPT !.pc = "done"]]
    /\ UNCHANGED <<ws, dl, up, conf>>

\* ------------------------------------------------------ reclamation timer
\* recycle_minion(minion) when the call_later delay expires: closes a session
\* that is still PENDING, and does nothing otherwise.
TimerFire(s) ==
    /\ timer[s] = "armed"
    /\ timer' = [timer EXCEPT ![s] = "fired"]
    /\ IF minion[s].state = PENDING
       THEN /\ minion' = [minion EXCEPT ![s] = MinionClosed(@, RecycledReason)]
            /\ heap' = HeapAfterClose(s)
       ELSE UNCHANGED <<minion, heap>>
    /\ last' = [NoEvent EXCEPT !.op = "timer", !.id = s]
    /\ UNCHANGED <<GRU, req, ws, dl, up, conf>>

\* The interactive pump of an ATTACHED session (spec-modelled, section 4.3):
\* a channel-level protocol error or EOF on the PTY channel closes the
\* session and detaches the handler.
PumpClose(s) ==
    /\ minion[s].state = ATTACHED
    /\ minion' = [minion EXCEPT ![s] = MinionClosed(@, ChanClosedReason)]
    /\ heap' = HeapAfterClose(s)
    /\ ws' = WsAfterClose(ws, s)
    /\ last' = [NoEvent EXCEPT !.op = "pump", !.id = s]
    /\ UNCHANGED <<GRU, req, timer, dl, up, conf>>

\* ------------------------------------------------------------- WSHandler
\* The id query arguments a WebSocket open can carry: a minion id, or None
\* for a missing or empty argument (get_value raises).
IdArgs == Ids \cup {None}
\* self.close_reason as the framework leaves it when on_close() runs.
CloseReasons == {NoReason, ClientReason}

\* Claim with the line minions[minion_id]["minion"] = None left out.
Claim_KeepSlot(ev, w, d, s) ==
    /\ UNCHANGED heap
    /\ minion' = [minion EXCEPT ![s] = SetHandler(@, w)]
    /\ ws' = [ws EXCEPT ![w] = [pc |-> "attached", minion_ref |-> s]]
    /\ last' = [ev EXCEPT !.outcome = "attached", !.id = s]

\* Claim with the call minion.set_handler(self) left out.
Claim_NoSetHandler(ev, w, d, s) ==
    /\ heap' = [heap EXCEPT ![d][s].minion = None]
    /\ UNCHANGED minion
    /\ ws' = [ws EXCEPT ![w] = [pc |-> "attached", minion_ref |-> s]]
    /\ last' = [ev EXCEPT !.outcome = "attached", !.id = s]

\* The claim in open(): the entry's minion slot is emptied, the handler is
\* set on the minion and the minion is referenced from the handler.
Claim(ev, w, d, s) ==
    /\ heap' = [heap EXCEPT ![d][s].minion = None]
    /\ minion' = [minion EXCEPT ![s] = SetHandler(@, w)]
    /\ ws' = [ws EXCEPT ![w] = [pc |-> "attached", minion_ref |-> s]]
    /\ last' = [ev EXCEPT !.outcome = "attached", !.id = s]

\* self.close(reason=...) in open(): nothing is claimed.
Reject(ev, w, reason) ==
    /\ ws' = [ws EXCEPT ![w].pc = "closing"]
    /\ last' = [ev EXCEPT !.outcome = "closed", !.reason = reason]
    /\ UNCHANGED <<heap, minion>>

\* WSHandler.open(). An id that is no key of the ip's dict makes
\* minions.get(minion_id) return None, and None["minion"] raises TypeError:
\* the exception leaves open() and the framework aborts the connection.
WSOpen(w, ip, port, idarg) ==
    /\ ws[w].pc = "new"
    /\ \A v \in WSs : v < w => ws[v].pc # "new"
    /\ LET d == GRU[ip]
           minions == Minions(ip)
           ev == [NoEvent EXCEPT !.op = "open", !.who = w, !.ip = ip,
                                 !.port = port, !.idarg = idarg]
       IN IF IsEmpty(minions)
          THEN Reject(ev, w, AuthFailedReason)
          ELSE IF idarg = None
          THEN Reject(ev, w, MissingIdReason)
          ELSE IF idarg \notin DOMAIN minions
          THEN /\ ws' = [ws EXCEPT ![w].pc = "aborted"]
               /\ last' = [ev EXCEPT !.outcome = "raised"]
               /\ UNCHANGED <<heap, minion>>
          ELSE IF minions[idarg].minion # None
          THEN Claim(ev, w, d, idarg)
          ELSE Reject(ev, w, AuthFailedReason)
    /\ UNCHANGED <<GRU, req, timer, dl, up, conf>>

\* CloseReasonOf without the default.
CloseReasonOf_NoDefault(reason) == reason

\* if not self.close_reason: self.close_reason = 'client disconnected'
CloseReasonOf(reason) ==
    IF reason = NoReason THEN DisconnectedReason ELSE reason

\* WSHandler.on_close(): the default close reason, then the claimed minion,
\* if any, is closed with it.
WSOnClose(w, reason) ==
    /\ ws[w].pc \in {"attached", "closing", "aborted"}
    /\ LET cr == CloseReasonOf(reason)
           s == ws[w].minion_ref
           wsf == [ws EXCEPT ![w].pc = "closed"]
       IN /\ last' = [NoEvent EXCEPT !.op = "on_close", !.who = w,
                                     !.id = s, !.reason = cr,
                                     !.input = reason]
          /\ IF s # None
             THEN /\ minion' = [minion EXCEPT ![s] = MinionClosed(@, cr)]
                  /\ heap' = HeapAfterClose(s)
                  /\ ws' = WsAfterClose(wsf, s)
             ELSE /\ ws' = wsf
                  /\ UNCHANGED <<minion, heap>>
    /\ UNCHANGED <<GRU, req, timer, dl, up, conf>>

\* Minion.do_write() (spec-modelled): a non-blocking write of the outbound
\* buffer. wr = "all": the channel takes everything; "part": it takes the
\* first item only; "none": it takes nothing; "fail": the write fails.
WriteOutcomes == {"all", "part", "none", "fail"}
AfterWrite(buf, wr) ==
    CASE wr = "all" -> <<>>
      [] wr = "part" -> Tail(buf)
      [] OTHER -> buf

\* if resize and len(resize) == 2: the condition raises TypeError when the
\* value is truthy and has no len().
ResizeRaises(rv) == Truthy(rv) /\ ~HasLen(rv)
\* The condition holds and resize_pty(*resize) is called.
ResizeCalled(rv) == Truthy(rv) /\ HasLen(rv) /\ PyLen(rv) = 2
\* resize_pty(width, height) changes the PTY size when both are integers and
\* the channel takes the request (chanOk); struct.error, TypeError and
\* paramiko.SSHException are swallowed by the except clause.
ResizeApplies(rv, chanOk) == ResizeCalled(rv) /\ AllInts(rv) /\ chanOk
\* if data and isinstance(data, str)
DataTaken(dv) == Truthy(dv) /\ PyType(dv) = "str"

\* Dropped with the test `if not isinstance(msg, dict): return` left out.
Dropped_NoDictTest(f) == f.json = "malformed"

\* msg = json.loads(message) raised JSONDecodeError, or msg is no dict:
\* on_message() returns at once.
Dropped(f) == f.json # "object"

\* WSHandler.on_message(message) on a handler that holds its minion. An
\* exception that leaves on_message() makes the framework abort the
\* connection (on_close() follows).
OnMessage(w, f, chanOk, wr) ==
    /\ ws[w].pc = "attached"
    /\ LET s == ws[w].minion_ref
           ev == [NoEvent EXCEPT !.op = "on_message", !.who = w, !.id = s,
                                 !.frame = f]
       IN IF Dropped(f)
          THEN /\ last' = [ev EXCEPT !.outcome = "returned"]
               /\ UNCHANGED <<minion, heap, ws>>
          ELSE IF f.json # "object" \/ ResizeRaises(f.resize)
          THEN \* msg.get on a value that is no dict (AttributeError), or
               \* len() of a value that has none (TypeError)
               /\ last' = [ev EXCEPT !.outcome = "raised"]
               /\ ws' = [ws EXCEPT ![w].pc = "aborted"]
               /\ UNCHANGED <<minion, heap>>
          ELSE
            LET pty1 == IF ResizeApplies(f.resize, chanOk)
                        THEN Dims(f.resize) ELSE minion[s].pty
                calls1 == IF ResizeCalled(f.resize) THEN {"resize_pty"} ELSE {}
                m1 == [minion[s] EXCEPT !.pty = pty1]
            IN IF ~DataTaken(f.data)
               THEN /\ last' = [ev EXCEPT !.outcome = "returned", !.calls = calls1]
                    /\ minion' = [minion EXCEPT ![s] = m1]
                    /\ UNCHANGED <<heap, ws>>
               ELSE \* minion.data_to_dst.append(data); minion.do_write()
                 LET buf1 == Append(m1.data_to_dst, "ls")
                     m2 == [m1 EXCEPT !.data_to_dst = AfterWrite(buf1, wr)]
                 IN /\ Len(m1.data_to_dst) < MaxBuf
                    /\ last' = [ev EXCEPT !.outcome = "returned",
                                          !.calls = calls1 \cup {"do_write"}]
                    /\ IF wr = "fail"
                       THEN /\ minion' = [minion EXCEPT ![s] =
                                 MinionClosed(m2, ChanClosedReason)]
                            /\ heap' = HeapAfterClose(s)
                            /\ ws' = WsAfterClose(ws, s)
                       ELSE /\ minion' = [minion EXCEPT ![s] = m2]
                            /\ UNCHANGED <<heap, ws>>
    /\ UNCHANGED <<GRU, req, timer, dl, up, conf>>

\* ------------------------------------------------- DownloadHandler.get
\* GRU.get(client_ip, {}) in exec_remote_cmd and in DownloadHandler.get:
\* a read; the default {} is not stored.
GRUAfterLookup_SetDefault(ip) ==
    IF GRU[ip] = None THEN [GRU EXCEPT ![ip] = CHOOSE d \in DictIds : TRUE] ELSE GRU
GRUAfterLookup(ip) == GRU
\* gru[self.minion_id]["args"]: the connect args, or NotFound for KeyError.
NotFound == "KeyError"
LookupArgs(ip, id) ==
    IF id \in DOMAIN Minions(ip) THEN Minions(ip)[id].args ELSE NotFound

\* What get_value() and create_ssh_client() can end in for a download.
DownloadOutcomes == {"ok", "missing", "sockerr", "authfail", "sshexc"}
\* The bytes 1..n of a remote file of n bytes.
FileOf(n) == [i \in 1..n |-> i]
\* The first k items of a sequence, and the rest.
Take(seq, k) == SubSeq(seq, 1, k)
\* Drop that loses one more byte than the chunk holds.
Drop_OneMore(seq, k) == SubSeq(seq, k + 2, Len(seq))
Drop(seq, k) == SubSeq(seq, k + 1, Len(seq))
Min(a, b) == IF a < b THEN a ELSE b

\* get() up to its first suspension: the query arguments, the lookup of the
\* connect args in GRU, then exec_remote_cmd(): a fresh SSH connection, the
\* existence probe (HTTPError(404) on a nonzero exit status, which get()
\* answers with the not-found text and finish()) and the content-dump
\* channel self.fh. Any other exception leaves get().
DownloadStart(ip, idarg, out, probeOk, n) ==
    /\ dl.pc = "idle"
    /\ dl' =
         IF out = "missing" \/ idarg = None
         THEN [dl EXCEPT !.pc = "raised", !.raised = TRUE]
         ELSE IF LookupArgs(ip, idarg) = NotFound
         THEN \* gru[self.minion_id] raises KeyError
              [dl EXCEPT !.pc = "raised", !.raised = TRUE,
                         !.minion_id = idarg]
         ELSE IF out # "ok"
         THEN \* create_ssh_client raised ValueError or SSHException
              [dl EXCEPT !.pc = "raised", !.raised = TRUE,
                         !.loop = {"ssh.connect"}]
         ELSE IF ~probeOk
         THEN [dl EXCEPT !.pc = "after_notfound", !.ssh = "open",
                         !.probe = "fail", !.notfound = TRUE,
                         !.finished = TRUE, !.minion_id = idarg,
                         !.loop = {"ssh.connect", "recv_exit_status"}]
         ELSE [dl EXCEPT !.pc = "loop", !.ssh = "open", !.probe = "ok",
                         !.fh = TRUE, !.file = FileOf(n), !.size = n,
                         !.minion_id = idarg,
                         !.loop = {"ssh.connect", "recv_exit_status"}]
    /\ GRU' = GRUAfterLookup(ip)
    /\ UNCHANGED <<heap, req, minion, timer, ws, last, up, conf>>

\* get() resumed after `await self.finish()` of the not-found answer: there
\* is no return, so the headers are set and self.fh.recv(chunk_size) is
\* evaluated with self.fh = None, which raises AttributeError.
DownloadAfterNotFound ==
    /\ dl.pc = "after_notfound"
    /\ dl' = [dl EXCEPT !.pc = "raised", !.raised = TRUE]
    /\ UNCHANGED <<GRU, heap, req, minion, timer, ws, last, up, conf>>

\* DownloadEnd with the call self.ssh_transport_client.close() left out.
DownloadEnd_NoClose(d) == [d EXCEPT !.pc = "done", !.finished = TRUE]

\* The end of get() after the loop: the one-off connection is closed and the
\* response finished.
DownloadEnd(d) == [d EXCEPT !.pc = "done", !.ssh = "closed", !.finished = TRUE]

\* One turn of the read loop: chunk = self.fh.recv(chunk_size) returns k
\* bytes (none at EOF); the chunk is written and flushed, which raises
\* StreamClosedError when the client has gone (streamOpen = FALSE).
DownloadRecv(k, streamOpen) ==
    /\ dl.pc = "loop"
    /\ LET d1 == [dl EXCEPT !.reads = Min(@ + 1, MaxFile + 1),
                            !.loop = @ \cup {"recv"}]
       IN IF dl.file = <<>>
          THEN dl' = DownloadEnd(d1)
          ELSE /\ k \in 1..Min(chunk_size, Len(dl.file))
               /\ LET d2 == [d1 EXCEPT !.file = Drop(@, k)]
                  IN IF streamOpen
                     THEN dl' = [d2 EXCEPT !.body = @ \o Take(dl.file, k)]
                     ELSE dl' = DownloadEnd([d2 EXCEPT !.gone = TRUE])
    /\ UNCHANGED <<GRU, heap, req, minion, timer, ws, last, up, conf>>

\* ---------------------------------------------------- StreamUploadMixin
\* Bytes: carriage return, line feed, and any other byte.
CR == "\r"
LF == "\n"
Bytes == {"x", CR, LF}
\* The byte strings of at most n bytes.
ByteStrings(n) == UNION {[1..k -> Bytes] : k \in 0..n}
\* chunk.endswith(b"\r\n")
EndsWithCRLF(c) ==
    Len(c) >= 2 /\ c[Len(c) - 1] = CR /\ c[Len(c)] = LF
\* The indexes at which b"\r\n" occurs in c.
CRLFAt(c) == {i \in 1..(Len(c) - 1) : c[i] = CR /\ c[i + 1] = LF}
\* The greatest and the least member of a non-empty set of numbers.
MaxOf(S) == CHOOSE i \in S : \A j \in S : j <= i
MinOf(S) == CHOOSE i \in S : \A j \in S : i <= j
\* RPartitionData with partition for rpartition: the first occurrence.
RPartitionData_First(c) ==
    IF CRLFAt(c) = {} THEN <<>> ELSE SubSeq(c, 1, MinOf(CRLFAt(c)) - 1)
\* data of `data, _, _ = chunk.rpartition(b"\r\n")`: what stands before the
\* last occurrence of the separator (empty when there is none).
RPartitionData(c) ==
    IF CRLFAt(c) = {} THEN <<>> ELSE SubSeq(c, 1, MaxOf(CRLFAt(c)) - 1)
\* _filter_trailing_carriage_return(chunk)
filter_trailing_carriage_return(chunk) ==
    IF EndsWithCRLF(chunk) THEN RPartitionData(chunk) ELSE chunk
\* _write_chunk(chunk) on upload u: the chunk is trimmed and sent.
WriteChunkTo(u, chunk) ==
    LET trimmed_chunk == filter_trailing_carriage_return(chunk)
    IN [u EXCEPT !.chunk = chunk, !.trimmed = trimmed_chunk,
                 !.sent = @ \o trimmed_chunk]
\* _write_chunk on the chunk the handler holds.
WriteChunk ==
    /\ up.pc = "chunk"
    /\ up' = [WriteChunkTo(up, up.chunk) EXCEPT !.pc = "written"]
    /\ UNCHANGED <<GRU, heap, req, minion, timer, ws, last, dl, conf>>

\* The request body of a multipart/form-data upload as a string of bytes
\* and of three longer pieces that no buffer cuts: SEP, the separator
\* b"--" + boundary that data_received() splits at; HM, the part header of
\* the form field "minion"; HU, the part header of the file field "upload".
\* A part header is the CR LF that ends the boundary line, the
\* Content-Disposition line and the empty line, so it ends with CR LF CR LF.
SEP == "SEP"
HM == "HM"
HU == "HU"
Headers == {HM, HU}
\* The bytes of a part header: at least those of
\* CR LF "Content-Disposition: form-data;" CR LF CR LF.
HeaderLen == 37
\* The id as it is written in the form field.
IdText(id) == ToString(id)
\* The end of the form after the last separator: b"--\r\n".
Terminator == <<"-", "-", CR, LF>>
\* The file content of n bytes.
ContentOf(n) == [i \in 1..n |-> "x"]
\* The body of an upload of a file of n bytes for session id.
BodyOf(id, n) ==
    <<SEP, HM, IdText(id), CR, LF, SEP, HU>> \o ContentOf(n)
      \o <<CR, LF, SEP>> \o Terminator
\* len(chunk)
ByteLen(chunk) ==
    Len(chunk)
      + (HeaderLen - 1) * Cardinality({i \in 1..Len(chunk) : chunk[i] \in Headers})
\* data.split(sep)
RECURSIVE Split(_)
Split(data) ==
    LET at == {i \in 1..Len(data) : data[i] = SEP}
    IN IF at = {} THEN <<data>>
       ELSE <<SubSeq(data, 1, MinOf(at) - 1)>>
              \o Split(SubSeq(data, MinOf(at) + 1, Len(data)))
\* re.match('.*Content-Disposition:\sform-data;.*', chunk)
Need2Partition(chunk) == \E i \in 1..Len(chunk) : chunk[i] \in Headers
\* header, _, part = chunk.partition(b"\r\n\r\n"): the first CR LF CR LF
\* of such a chunk is the end of its part header.
HeaderOf(chunk) == chunk[MinOf({i \in 1..Len(chunk) : chunk[i] \in Headers})]
PartOf(chunk) ==
    SubSeq(chunk, MinOf({i \in 1..Len(chunk) : chunk[i] \in Headers}) + 1,
           Len(chunk))
\* part.decode().strip() read as a minion id (None: no id of the model).
RECURSIVE Strip(_)
Strip(s) ==
    IF s # <<>> /\ s[Len(s)] \in {CR, LF} THEN Strip(SubSeq(s, 1, Len(s) - 1))
    ELSE s
IdOf(part) ==
    IF \E i \in Ids : Strip(part) = <<IdText(i)>>
    THEN CHOOSE i \in Ids : Strip(part) = <<IdText(i)>>
    ELSE None

\* One chunk of data_received() on upload u; sshOk: create_ssh_client of
\* exec_remote_cmd succeeds. An exception leaves data_received().
ProcessChunk(u, chunk, sshOk) ==
    IF ByteLen(chunk) = 0 THEN u
    ELSE IF ByteLen(chunk) = 4
    THEN \* self.ssh_transport_client.close()
         IF u.ssh = "none" THEN [u EXCEPT !.pc = "raised"]
         ELSE [u EXCEPT !.ssh = "closed", !.closedOn = @ \cup {chunk}]
    ELSE IF Need2Partition(chunk)
    THEN IF PartOf(chunk) = <<>> THEN u
         ELSE IF HeaderOf(chunk) = HM
         THEN [u EXCEPT !.minion_id = IdOf(PartOf(chunk))]
         ELSE \* exec_remote_cmd(f'cat > /tmp/{self.filename}'), then
              \* _write_chunk(part)
              IF LookupArgs(u.ip, u.minion_id) = NotFound \/ ~sshOk
              THEN [u EXCEPT !.pc = "raised"]
              ELSE WriteChunkTo([u EXCEPT !.ssh = "open", !.fh = TRUE],
                                PartOf(chunk))
    ELSE \* _write_chunk(chunk): self.fh.sendall
         IF ~u.fh \/ u.ssh # "open" THEN [u EXCEPT !.pc = "raised"]
         ELSE WriteChunkTo(u, chunk)

\* for chunk in chunks
RECURSIVE ProcessChunks(_, _, _)
ProcessChunks(u, chunks, sshOk) ==
    IF chunks = <<>> \/ u.pc = "raised" THEN u
    ELSE ProcessChunks(ProcessChunk(u, Head(chunks), sshOk), Tail(chunks), sshOk)

\* The request of an upload arrives: a form with the id of a session and a
\* file of n bytes, from a client at ip.
UploadStart(ip, id, n) ==
    /\ up.pc = "idle"
    /\ up' = [up EXCEPT !.pc = "body", !.ip = ip, !.rest = BodyOf(id, n)]
    /\ UNCHANGED <<GRU, heap, req, minion, timer, ws, last, dl, conf>>

\* data_received(data) with the next k pieces of the body.
data_received(k, sshOk) ==
    /\ up.pc = "body" /\ up.rest # <<>>
    /\ k \in 1..Len(up.rest)
    /\ up' = ProcessChunks([up EXCEPT !.rest = SubSeq(@, k + 1, Len(@))],
                           Split(SubSeq(up.rest, 1, k)), sshOk)
    /\ GRU' = GRUAfterLookup(up.ip)
    /\ UNCHANGED <<heap, req, minion, timer, ws, last, dl, conf>>

\* UploadHandler.post(), when the whole body has been received.
UploadPost ==
    /\ up.pc = "body" /\ up.rest = <<>>
    /\ up' = [up EXCEPT !.pc = "done"]
    /\ UNCHANGED <<GRU, heap, req, minion, timer, ws, last, dl, conf>>

\* ------------------------------------------------------------------ Next
\* The connect, timer and WebSocket steps of the requests R and the
\* WebSocket connections W, with client ports P.
NextRegistry(R, W, P) ==
    \/ \E r \in R, ip \in IPs, port \in P, out \in PostOutcomes :
         PostStart(r, ip, port, out)
    \/ \E r \in R, a \in Args, ok \in BOOLEAN : PostResume(r, a, ok)
    \/ \E s \in R : TimerFire(s)
    \/ \E s \in R : PumpClose(s)
    \/ \E w \in W, ip \in IPs, port \in P, idarg \in IdArgs :
         WSOpen(w, ip, port, idarg)
    \/ \E w \in W, reason \in CloseReasons : WSOnClose(w, reason)

\* The client port of the scenarios in which the port plays no part.
OnePort == {4001}

\* Connect requests, reclamation and WebSocket claims.
Next == NextRegistry(Reqs, WSs, OnePort)

Spec == Init /\ [][Next]_vars

\* The inbound-frame scenario: one connect request and one WebSocket
\* connection, with the frames the connection receives.
MsgReqs == {1}
MsgWSs == {1}

NextMsg ==
    \/ NextRegistry(MsgReqs, MsgWSs, OnePort)
    \/ \E w \in MsgWSs, f \in Frames, chanOk \in BOOLEAN,
          wr \in WriteOutcomes :
         OnMessage(w, f, chanOk, wr)

SpecMsg == Init /\ [][NextMsg]_vars

\* The download scenario: two connect requests, one WebSocket connection
\* and one download.
DownloadReqs == {1, 2}
DownloadWSs == {1}

NextDownload ==
    \/ NextRegistry(DownloadReqs, DownloadWSs, OnePort)
    \/ \E ip \in IPs, idarg \in IdArgs, out \in DownloadOutcomes,
          probeOk \in BOOLEAN, n \in 0..MaxFile :
         DownloadStart(ip, idarg, out, probeOk, n)
    \/ DownloadAfterNotFound
    \/ \E k \in 1..chunk_size, streamOpen \in BOOLEAN : DownloadRecv(k, streamOpen)

SpecDownload == Init /\ [][NextDownload]_vars

\* The configuration scenario: conf is read from any environment, then
\* connect requests and WebSocket connections run as in the inbound-frame
\* scenario.
InitConf ==
    \E mc \in EnvVals, dly \in EnvVals :
        /\ GRU = [ip \in IPs |-> None]
        /\ heap = [d \in DictIds |-> EmptyDict]
        /\ req = [r \in Reqs |-> NewReq]
        /\ minion = [s \in Ids |-> NewMinion]
        /\ timer = [s \in Ids |-> "none"]
        /\ ws = [w \in WSs |-> NewWS]
        /\ last = NoEvent
        /\ dl = NewDownload
        /\ up = NewUpload
        /\ conf = ConfOf([TERM_MAX_CONN |-> mc, TERM_DELAY |-> dly])

\* The endpoint scenario: one connect request and the WebSocket
\* connections, with clients at every ip and port.
NextPorts == NextRegistry(MsgReqs, WSs, Ports)

SpecPorts == Init /\ [][NextPorts]_vars

\* The upload scenario: one connect request, one WebSocket connection and
\* one upload.
NextUpload ==
    \/ NextRegistry(MsgReqs, MsgWSs, OnePort)
    \/ \E ip \in IPs, id \in Ids, n \in 0..MaxUpload : UploadStart(ip, id, n)
    \/ \E k \in 1..Len(BodyOf(1, MaxUpload)), sshOk \in BOOLEAN :
         data_received(k, sshOk)
    \/ UploadPost

SpecUpload == Init /\ [][NextUpload]_vars

\* The filter scenario: _write_chunk on any chunk of at most MaxChunk bytes.
InitFilter ==
    \E c \in ByteStrings(MaxChunk) :
        /\ GRU = [ip \in IPs |-> None]
        /\ heap = [d \in DictIds |-> EmptyDict]
        /\ req = [r \in Reqs |-> NewReq]
        /\ minion = [s \in Ids |-> NewMinion]
        /\ timer = [s \in Ids |-> "none"]
        /\ ws = [w \in WSs |-> NewWS]
        /\ last = NoEvent
        /\ dl = NewDownload
        /\ up = [NewUpload EXCEPT !.pc = "chunk", !.chunk = c]
        /\ conf = ConfOf(Env0)

SpecFilter == InitFilter /\ [][WriteChunk]_vars

SpecConf == InitConf /\ [][NextRegistry(MsgReqs, MsgWSs, OnePort)]_vars

\* The download scenario on an event loop that resumes the coroutine get()
\* after each of its awaits, with a channel that answers every recv().
FairDownload ==
    SpecDownload
    /\ WF_vars(\E k \in 1..chunk_size, streamOpen \in BOOLEAN :
                  DownloadRecv(k, streamOpen))

\* ================================================================ claims
\* The registry entries under ip whose session is PENDING or ATTACHED.
Admitted(ip) ==
    {s \in DOMAIN Minions(ip) : minion[s].state \in {PENDING, ATTACHED}}
\* The WebSocket handlers that obtained session s from a claim.
Claimants(s) == {w \in WSs : ws[w].minion_ref = s}

\* C1: for every client endpoint, in every interleaving of connect requests,
\* the number of registry entries of PENDING or ATTACHED sessions never
\* exceeds max_conn.
C1_AdmittedWithinCap ==
    \A ip \in IPs : Cardinality(Admitted(ip)) <= max_conn

\* C2: a session is obtained by at most one WebSocket open: at most one
\* handler ever holds it, the handler set on the session is that one, and an
\* open that did not end attached holds no session.
C2_ClaimExactlyOnce ==
    /\ \A s \in Ids : Cardinality(Claimants(s)) <= 1
    /\ \A s \in Ids : minion[s].handler # None =>
                        ws[minion[s].handler].minion_ref = s
    /\ (last.op = "open" /\ last.outcome # "attached") =>
          ws[last.who].minion_ref = None

\* C2 witness: one handler holds session s and a second open naming s was
\* closed without a session.
C2_Witness ==
    \E s \in Ids, w \in WSs :
        /\ ws[w].minion_ref = s
        /\ last.op = "open" /\ last.who # w /\ last.idarg = s
        /\ last.outcome = "closed"

\* C3: claim and reclamation are mutually exclusive. No session is both
\* closed by the reclamation timer and obtained by a WebSocket handler; a
\* timer that fires on a session that is not PENDING changes no session and
\* no registry entry; and PENDING ends only by a claim (to ATTACHED) or by
\* the timer (to CLOSED).
C3_ClaimXorReclaim ==
    /\ [](\A s \in Ids :
            ~(minion[s].close_reason = RecycledReason /\ Claimants(s) # {}))
    /\ [][\A s \in Ids :
            /\ (timer[s] = "armed" /\ timer'[s] = "fired"
                  /\ minion[s].state # PENDING)
               => (minion' = minion /\ heap' = heap /\ ws' = ws)
            /\ (minion[s].state = PENDING /\ minion'[s].state # PENDING)
               => \/ /\ minion'[s].state = ATTACHED
                     /\ last'.op = "open" /\ last'.outcome = "attached"
                     /\ last'.id = s /\ timer'[s] = timer[s]
                  \/ /\ minion'[s].state = CLOSED
                     /\ minion'[s].close_reason = RecycledReason
                     /\ last'.op = "timer" /\ last'.id = s
                     /\ Claimants(s) = {}]_vars

\* C3 witness: the timer of a claimed session has fired and the session is
\* still ATTACHED, while another session was closed by its timer and the
\* WebSocket open that then named it obtained nothing.
C3_Witness ==
    /\ \E s \in Ids : timer[s] = "fired" /\ minion[s].state = ATTACHED
    /\ \E s \in Ids :
          /\ minion[s].close_reason = RecycledReason
          /\ last.op = "open" /\ last.idarg = s /\ last.outcome # "attached"
          /\ ws[last.who].minion_ref = None

\* The scenario with fair timers: two connect requests and the WebSocket
\* connections, on an event loop that runs every timer it was given
\* (call_later callbacks are weakly fair).
LiveReqs == {1, 2}

NextLive == NextRegistry(LiveReqs, WSs, OnePort)

FairSpec ==
    Init /\ [][NextLive]_vars /\ \A s \in Ids : WF_vars(TimerFire(s))

\* Session s has an entry in the registry (under its creating ip).
InRegistry(s) == s \in DOMAIN Minions(minion[s].src_addr[1])

\* C4: every successful connect has scheduled a reclamation timer for its
\* session; every PENDING session is eventually claimed or else CLOSED and
\* out of the registry; and no CLOSED session has a registry entry.
C4_UnclaimedReclaimed ==
    /\ [](\A s \in Ids : minion[s].state # NOMINION => timer[s] # "none")
    /\ []((last.op = "post" /\ last.id # None) => timer[last.id] # "none")
    /\ [](\A s \in Ids : minion[s].state = CLOSED => ~InRegistry(s))
    /\ \A s \in Ids :
         (minion[s].state = PENDING) ~>
            \/ minion[s].state = ATTACHED
            \/ minion[s].state = CLOSED /\ ~InRegistry(s)

\* C4 witness: a session that no WebSocket claimed was closed by its timer
\* and has no registry entry, while another session of the same ip is
\* still registered.
C4_Witness ==
    \E s \in Ids, s2 \in Ids :
        /\ minion[s].state = CLOSED
        /\ minion[s].close_reason = RecycledReason
        /\ timer[s] = "fired" /\ Claimants(s) = {} /\ ~InRegistry(s)
        /\ s2 # s /\ minion[s2].src_addr[1] = minion[s].src_addr[1]
        /\ minion[s2].state # NOMINION /\ InRegistry(s2)

\* Request r runs post() in this step, from its start, for a client at ip.
PostStarts(r, ip) ==
    /\ req[r].pc = "idle" /\ req'[r].pc # "idle"
    /\ last'.op = "post" /\ last'.who = r /\ last'.ip = ip

UnknownId(ip, id) == id \notin DOMAIN Minions(ip)
\* The id named by an open is registered under ip and already claimed.
ClaimedId(ip, id) ==
    id \in DOMAIN Minions(ip) /\ Minions(ip)[id].minion = None

\* C6: a WebSocket open that names a session id which is unknown or already
\* claimed is closed with the reason "Websocket authentication failed." and
\* holds no session, whatever the registry holds.
C6_UnknownOrClaimedRejected ==
    [][\A w \in WSs, ip \in IPs, id \in Ids :
         (/\ ws[w].pc = "new" /\ ws'[w].pc # "new"
          /\ last'.op = "open" /\ last'.who = w
          /\ last'.ip = ip /\ last'.idarg = id
          /\ (UnknownId(ip, id) \/ ClaimedId(ip, id)))
         => /\ last'.outcome = "closed"
            /\ last'.reason = AuthFailedReason
            /\ ws'[w].minion_ref = None]_vars

\* The outcomes of a connect attempt in which the SSH handshake fails: the
\* connect itself (socket error, authentication, protocol error) or the
\* shell/PTY allocation of create_minion.
HandshakeFailures == {"sockerr", "authfail", "sshexc", "shellexc"}

\* C7: a connect request whose SSH handshake was attempted and failed is
\* answered 200 with id null and a status string, and creates no session:
\* the registry, the sessions and the timers are unchanged.
C7_HandshakeFailureIsData ==
    [][\A r \in Reqs :
         (/\ req[r].pc # "done" /\ req'[r].pc = "done"
          /\ last'.op = "post" /\ last'.who = r
          /\ last'.net /\ last'.input \in HandshakeFailures)
         => /\ last'.http = 200 /\ last'.outcome = "written"
            /\ last'.id = None /\ last'.status # NoStatus
            /\ GRU' = GRU /\ heap' = heap /\ minion' = minion
            /\ timer' = timer]_vars

\* C7 witness: a connect with a wrong password was answered 200 with the
\* status "Authentication failed." while the ip has a session registered.
C7_Witness ==
    /\ last.op = "post" /\ last.input = "authfail" /\ last.net
    /\ last.http = 200 /\ last.id = None
    /\ last.status = "Authentication failed."
    /\ Admitted(last.ip) # {}

\* Handler w runs on_message() on frame f in this step.
OnMessageRuns(w, f) ==
    /\ ws[w].pc = "attached"
    /\ last'.op = "on_message" /\ last'.who = w /\ last'.frame = f
    /\ last' # last

\* A resize member that is present and is no list of two integers.
MalformedResize(rv) == rv \notin {"absent", "[80,24]"}

\* C8: for a frame whose JSON object carries a malformed resize value,
\* on_message() returns without raising, leaves the PTY size as it was and
\* the WebSocket open; with no data to write, the session and the registry
\* are unchanged altogether.
C8_MalformedResizeIgnored ==
    [][\A w \in WSs, f \in Frames :
         (OnMessageRuns(w, f) /\ f.json = "object" /\ MalformedResize(f.resize))
         => /\ last'.outcome = "returned"
            /\ (ws'[w].pc = "attached" \/ "do_write" \in last'.calls)
            /\ minion'[ws[w].minion_ref].pty = minion[ws[w].minion_ref].pty
            /\ (~DataTaken(f.data) =>
                  (minion' = minion /\ ws' = ws /\ heap' = heap))]_vars

\* C9: a frame that is malformed JSON, or a JSON value that is no object, is
\* dropped: on_message() returns having called nothing on the minion, and
\* the sessions (buffer, PTY size, state), the registry and the WebSocket
\* handlers are unchanged.
C9_NonObjectFrameDropped ==
    [][\A w \in WSs, f \in Frames :
         (OnMessageRuns(w, f) /\ f.json # "object")
         => /\ last'.outcome = "returned" /\ last'.calls = {}
            /\ minion' = minion /\ ws' = ws /\ heap' = heap
            /\ GRU' = GRU /\ timer' = timer]_vars

\* C9 witness: a frame of malformed JSON was given to a handler whose session
\* has a resized PTY and text waiting in its buffer; the connection is open
\* and the session ATTACHED.
C9_Witness ==
    /\ last.op = "on_message" /\ last.frame.json = "malformed"
    /\ last.outcome = "returned"
    /\ ws[last.who].pc = "attached"
    /\ minion[last.id].state = ATTACHED
    /\ minion[last.id].pty = <<80, 24>>
    /\ minion[last.id].data_to_dst # <<>>

\* C10: when the existence probe of a download fails and get() has ended,
\* the not-found answer was given, no content-dump channel was opened, no
\* chunk was read, get() did not raise and the probe's SSH connection is
\* closed.
C10_ProbeNotFoundClean ==
    (dl.probe = "fail" /\ dl.pc \in {"done", "raised"})
    => /\ dl.notfound /\ dl.finished
       /\ ~dl.fh /\ dl.reads = 0
       /\ ~dl.raised
       /\ dl.ssh = "closed"

\* C11: download round trip. While the client stays connected the bytes
\* written to the response followed by the bytes not yet read are the
\* original file, in order; a loop that ended on EOF has written exactly the
\* size bytes of the file; a response cut short by a disconnect is a prefix
\* of the file; and the read loop terminates.
C11_DownloadRoundTrip ==
    /\ []((dl.pc \in {"loop", "done"} /\ ~dl.gone)
            => dl.body \o dl.file = FileOf(dl.size))
    /\ []((dl.pc = "done" /\ ~dl.gone) => dl.body = FileOf(dl.size))
    /\ [](dl.pc \in {"loop", "done"}
            => dl.body = Take(FileOf(dl.size), Len(dl.body)))
    /\ (dl.pc = "loop") ~> (dl.pc = "done")

\* C11 witness: a file one byte longer than the chunk size was delivered in
\* full, in more than one chunk.
C11_Witness ==
    /\ dl.pc = "done" /\ ~dl.gone
    /\ dl.size = chunk_size + 1 /\ Len(dl.body) = chunk_size + 1
    /\ dl.reads >= 3

\* C12: once the content-dump channel is open, the one-off SSH connection is
\* eventually closed, and it is closed whenever the read loop has ended, on
\* EOF as on a disconnect of the client.
C12_DownloadClosesConnection ==
    /\ []((dl.fh /\ dl.pc = "done") => dl.ssh = "closed")
    /\ dl.fh ~> (dl.ssh = "closed")

\* C12 witness: the loop was ended by a disconnect of the client with bytes
\* of the file still unread, and the connection is closed.
C12_Witness ==
    /\ dl.fh /\ dl.pc = "done" /\ dl.gone /\ dl.file # <<>>
    /\ dl.ssh = "closed"

\* C13: the trailing-CRLF filter. For every chunk given to _write_chunk, what
\* is sent is the chunk without its last two bytes when it ends with CR LF
\* (one pair only), and the chunk unchanged otherwise.
C13_FilterRemovesOneTrailingCRLF ==
    up.pc = "written" =>
        /\ EndsWithCRLF(up.chunk) =>
               up.trimmed = SubSeq(up.chunk, 1, Len(up.chunk) - 2)
        /\ ~EndsWithCRLF(up.chunk) => up.trimmed = up.chunk
        /\ up.sent = up.trimmed

\* C13 witness: a chunk with two CR LF pairs at its end lost the last pair
\* only.
C13_Witness ==
    /\ up.pc = "written"
    /\ up.chunk = <<"x", CR, LF, CR, LF>>
    /\ up.trimmed = <<"x", CR, LF>>

\* C14: resolving the connect args for a download or an upload is read-only:
\* a step of the download or upload handler, whatever endpoint and id it
\* names, leaves the registry (its endpoints, entries, session slots and
\* connect args), the sessions, their timers and the WebSocket handlers
\* unchanged; and the claim of a session leaves its connect args resolvable.
C14_LookupReadOnly ==
    /\ [][(dl' # dl \/ up' # up)
            => /\ GRU' = GRU /\ heap' = heap /\ minion' = minion
               /\ timer' = timer /\ ws' = ws]_vars
    /\ [][\A ip \in IPs, s \in Ids :
            (minion[s].state = PENDING /\ minion'[s].state = ATTACHED
               /\ LookupArgs(ip, s) # NotFound)
            => LookupArgs(ip, s)' = LookupArgs(ip, s)]_vars

\* C14 witness: a download found the connect args of a claimed session and
\* is reading the file, while the session is ATTACHED and registered.
C14_Witness ==
    /\ dl.pc = "loop" /\ dl.minion_id # None
    /\ minion[dl.minion_id].state = ATTACHED
    /\ InRegistry(dl.minion_id)
    /\ Minions(minion[dl.minion_id].src_addr[1])[dl.minion_id].minion = None

\* C15: a session is brokered to its own client endpoint only. A WebSocket
\* open that names a PENDING session from an endpoint (ip, port) other than
\* the one that created it does not obtain the session, and the session and
\* its registry entry are left as they were.
C15_OwnEndpointOnly ==
    [][\A w \in WSs, s \in Ids :
         (/\ ws[w].pc = "new" /\ ws'[w].pc # "new"
          /\ last'.op = "open" /\ last'.who = w /\ last'.idarg = s
          /\ minion[s].state = PENDING
          /\ <<last'.ip, last'.port>> # minion[s].src_addr)
         => /\ last'.outcome # "attached"
            /\ ws'[w].minion_ref = None
            /\ minion'[s] = minion[s] /\ heap' = heap]_vars

\* Handler w runs on_close() in this step, the framework having left it the
\* close reason given.
OnCloseRuns(w, given) ==
    /\ ws[w].pc # "closed" /\ ws'[w].pc = "closed"
    /\ last'.op = "on_close" /\ last'.who = w /\ last'.input = given

\* C16: when a WebSocket that claimed a session closes, the session is
\* CLOSED after on_close() and has no registry entry; a session that was
\* still ATTACHED is closed with the WebSocket's close reason, or with
\* "client disconnected" when there is none. When a WebSocket that
\* claimed nothing closes, no session, registry entry or timer changes.
C16_CloseFollowsWebSocket ==
    [][\A w \in WSs, given \in CloseReasons :
         OnCloseRuns(w, given)
         => LET s == ws[w].minion_ref
            IN IF s # None
               THEN /\ minion'[s].state = CLOSED
                    /\ ~InRegistry(s)'
                    /\ minion[s].state = ATTACHED =>
                          minion'[s].close_reason =
                            (IF given = NoReason THEN "client disconnected"
                             ELSE given)
                    /\ \A o \in Ids \ {s} : minion'[o] = minion[o]
               ELSE minion' = minion /\ heap' = heap /\ GRU' = GRU
                      /\ timer' = timer]_vars

\* C16 witness: a WebSocket that held a session closed without a reason and
\* the session is CLOSED with "client disconnected", while another WebSocket
\* was rejected and is closed.
C16_Witness ==
    /\ last.op = "on_close" /\ last.id # None /\ last.input = NoReason
    /\ minion[last.id].state = CLOSED
    /\ minion[last.id].close_reason = "client disconnected"
    /\ \E w \in WSs : ws[w].pc = "closed" /\ ws[w].minion_ref = None

\* C17: the event-loop thread never executes a blocking call: no connect
\* request ran its SSH connect on the event-loop thread, and no download
\* ran a blocking call (its connect, its probe, its chunk reads) there.
C17_LoopNeverBlocks ==
    /\ last.op = "post" => last.loop = {}
    /\ dl.loop = {}

\* C18: every session that was created and is not CLOSED is resolvable in
\* the registry under the ip of its creating endpoint.
C18_CreatedStaysRegistered ==
    \A s \in Ids :
        minion[s].state \in {PENDING, ATTACHED} => InRegistry(s)

\* C19: in an upload the one-off connection is closed at the end of the form
\* only: every chunk that data_received() closed it on is the terminator
\* b"--\r\n", and once it is closed nothing of the body is still to come.
C19_CloseOnlyAtTerminator ==
    /\ \A c \in up.closedOn : c = Terminator
    /\ up.ssh = "closed" => up.rest = <<>>

\* The reclamation delay that was configured: the setting for the delay when
\* it is set (and not 0), DELAY otherwise.
ConfiguredDelay ==
    IF conf.env.TERM_DELAY \in {Unset, 0} THEN DELAY ELSE conf.env.TERM_DELAY

\* C20: the delay given to the reclamation timer of a created session is the
\* configured reclamation delay, 3 when none is configured, whatever the
\* maximum-connections setting is.
C20_DelayIsConfiguredDelay ==
    (last.op = "post" /\ last.id # None) => last.delay = ConfiguredDelay

====
